---- MODULE Spec2Model ----
(***************************************************************************)
(* Model of dbus/dbus-marshal-validate.c: the signature grammar validator, *)
(* the recursive body validator and the name validators.                   *)
(*                                                                         *)
(* Byte strings (signatures, bodies, names) are sequences of integers      *)
(* 0..255; a type code is the ASCII value of its character.  Pointers are  *)
(* integer addresses: the byte at index i of a range that starts at        *)
(* address s lives at address s + i - 1.                                   *)
(***************************************************************************)
EXTENDS Integers, Sequences, FiniteSets, TLC

VARIABLES
  pc,              \* "call" before the entry point runs, "done" after it
                   \* ("path_done", "interface_done", "error_name_done"
                   \* after the name validators other than the bus name's)
  type_str,        \* _dbus_validate_signature_with_reason: the type codes
  sig_validity,    \* ... its DBusValidity
  name_str,        \* _dbus_validate_bus_name, _dbus_validate_path,
                   \* _dbus_validate_interface, _dbus_validate_error_name:
                   \* the name
  name_ok,         \* ... its dbus_bool_t
  expected_signature, \* _dbus_validate_body_with_reason: the signature
  byte_order,      \* ... the byte order
  value_str,       \* ... the len bytes of the body
  value_pos,       \* ... the address of the first body byte
  want_remaining,  \* ... TRUE iff bytes_remaining != NULL
  beyond,          \* ... what memory outside [p, end) reads as
  walk,            \* ... validity and p of the walk of the top-level values
  body_validity,   \* ... its DBusValidity
  bytes_remaining, \* ... *bytes_remaining (when stored)
  obs              \* ... what the walk did (reads, depth, padding, lookups)

vars == << pc, type_str, sig_validity, name_str, name_ok, expected_signature,
           byte_order, value_str, value_pos, want_remaining, beyond,
           walk, body_validity, bytes_remaining, obs >>

(***************************************************************************)
(* Bounds of the model.                                                    *)
(***************************************************************************)
\* longest type string given to the signature validator
MaxSigLen == 6
\* DBUS_MAXIMUM_TYPE_RECURSION_DEPTH is 32 in dbus-protocol.h; the model
\* scales it down so that strings of MaxSigLen codes reach and exceed it
DBUS_MAXIMUM_TYPE_RECURSION_DEPTH == 2

(***************************************************************************)
(* Type codes (dbus-protocol.h), as used by the validator.                 *)
(***************************************************************************)
DBUS_TYPE_INVALID == 0
DBUS_TYPE_BYTE == 121
DBUS_TYPE_BOOLEAN == 98
DBUS_TYPE_INT32 == 105
DBUS_TYPE_UINT32 == 117
DBUS_TYPE_INT64 == 120
DBUS_TYPE_UINT64 == 116
DBUS_TYPE_DOUBLE == 100
DBUS_TYPE_STRING == 115
DBUS_TYPE_OBJECT_PATH == 111
DBUS_TYPE_SIGNATURE == 103
DBUS_TYPE_ARRAY == 97
DBUS_TYPE_VARIANT == 118
DBUS_TYPE_STRUCT == 114
DBUS_STRUCT_BEGIN_CHAR == 40
DBUS_STRUCT_END_CHAR == 41
DBUS_MAXIMUM_SIGNATURE_LENGTH == 255

\* the case labels of the signature validator's switch that just break
SignatureBasicCodes ==
  { DBUS_TYPE_BYTE, DBUS_TYPE_BOOLEAN, DBUS_TYPE_INT32, DBUS_TYPE_UINT32,
    DBUS_TYPE_INT64, DBUS_TYPE_UINT64, DBUS_TYPE_DOUBLE, DBUS_TYPE_STRING,
    DBUS_TYPE_OBJECT_PATH, DBUS_TYPE_SIGNATURE, DBUS_TYPE_VARIANT }

(***************************************************************************)
(* _dbus_validate_signature_with_reason                                    *)
(***************************************************************************)
\* a variant of ExceedsMaximumRecursion that is off by one
ExceedsMaximumRecursion_OffByOne(depth) ==
  depth > DBUS_MAXIMUM_TYPE_RECURSION_DEPTH + 1

\* the two depth tests: array_depth / struct_depth > the maximum
ExceedsMaximumRecursion(depth) ==
  depth > DBUS_MAXIMUM_TYPE_RECURSION_DEPTH

RECURSIVE SignatureScan(_, _, _, _, _)
\* the while (p != end) loop, from index i with the three locals, and the
\* two tests after the loop
SignatureScan(s, i, struct_depth, array_depth, last) ==
  IF i > Len(s)
  THEN IF array_depth > 0 THEN "DBUS_INVALID_MISSING_ARRAY_ELEMENT_TYPE"
       ELSE IF struct_depth > 0 THEN "DBUS_INVALID_STRUCT_STARTED_BUT_NOT_ENDED"
       ELSE "DBUS_VALID"
  ELSE LET c == s[i] IN
    IF c \in SignatureBasicCodes
    THEN SignatureScan(s, i + 1, struct_depth, 0, c)
    ELSE IF c = DBUS_TYPE_ARRAY
    THEN IF ExceedsMaximumRecursion(array_depth + 1)
         THEN "DBUS_INVALID_EXCEEDED_MAXIMUM_ARRAY_RECURSION"
         ELSE SignatureScan(s, i + 1, struct_depth, array_depth + 1, c)
    ELSE IF c = DBUS_STRUCT_BEGIN_CHAR
    THEN IF ExceedsMaximumRecursion(struct_depth + 1)
         THEN "DBUS_INVALID_EXCEEDED_MAXIMUM_STRUCT_RECURSION"
         ELSE SignatureScan(s, i + 1, struct_depth + 1, 0, c)
    ELSE IF c = DBUS_STRUCT_END_CHAR
    THEN IF struct_depth = 0
         THEN "DBUS_INVALID_STRUCT_ENDED_BUT_NOT_STARTED"
         ELSE IF last = DBUS_STRUCT_BEGIN_CHAR
         THEN "DBUS_INVALID_STRUCT_HAS_NO_FIELDS"
         ELSE SignatureScan(s, i + 1, struct_depth - 1, 0, c)
    ELSE "DBUS_INVALID_UNKNOWN_TYPECODE"

\* the entry point on the len = Len(s) codes of s
_dbus_validate_signature_with_reason(s) ==
  IF Len(s) > DBUS_MAXIMUM_SIGNATURE_LENGTH
  THEN "DBUS_INVALID_SIGNATURE_TOO_LONG"
  ELSE SignatureScan(s, 1, 0, 0, DBUS_TYPE_INVALID)

\* the boolean wrapper (the range always lies inside the string here)
_dbus_validate_signature(s) ==
  _dbus_validate_signature_with_reason(s) = "DBUS_VALID"

(***************************************************************************)
(* The collaborators of the body validator that live outside this file:    *)
(* the byte-range abstraction, the unpacking of a 32-bit word, the         *)
(* alignment table and the types-only type reader.                         *)
(***************************************************************************)
DBUS_LITTLE_ENDIAN == 108
DBUS_BIG_ENDIAN == 66

\* the address just past the body
EndOf(ctx) == ctx.start + Len(ctx.bytes)

\* TRUE iff address q is a byte of the body, [start, start + len)
InBody(ctx, q) == ctx.start <= q /\ q < EndOf(ctx)

\* *q: a byte of the body, or whatever lies outside it
ByteAt(ctx, q) ==
  IF InBody(ctx, q) THEN ctx.bytes[q - ctx.start + 1] ELSE ctx.beyond

\* the n bytes at address q (_dbus_string_init_const_len)
BytesAt(ctx, q, n) == [i \in 1..n |-> ByteAt(ctx, q + i - 1)]

\* _dbus_unpack_uint32: the 4 bytes at q, per the byte order
_dbus_unpack_uint32(ctx, q) ==
  IF ctx.byte_order = DBUS_LITTLE_ENDIAN
  THEN ByteAt(ctx, q) + 256 * ByteAt(ctx, q + 1) + 65536 * ByteAt(ctx, q + 2)
       + 16777216 * ByteAt(ctx, q + 3)
  ELSE ByteAt(ctx, q + 3) + 256 * ByteAt(ctx, q + 2) + 65536 * ByteAt(ctx, q + 1)
       + 16777216 * ByteAt(ctx, q)

\* _DBUS_ALIGN_ADDRESS: p rounded up to a multiple of boundary
_DBUS_ALIGN_ADDRESS(p, boundary) == ((p + boundary - 1) \div boundary) * boundary

\* the type codes that have an alignment
TypesWithAlignment ==
  { DBUS_TYPE_BYTE, DBUS_TYPE_VARIANT, DBUS_TYPE_SIGNATURE,
    DBUS_TYPE_BOOLEAN, DBUS_TYPE_INT32, DBUS_TYPE_UINT32, DBUS_TYPE_STRING,
    DBUS_TYPE_OBJECT_PATH, DBUS_TYPE_ARRAY,
    DBUS_TYPE_INT64, DBUS_TYPE_UINT64, DBUS_TYPE_DOUBLE, DBUS_TYPE_STRUCT }

\* _dbus_type_get_alignment: 1, 4 or 8; defined on TypesWithAlignment only
\* (any other code is the fatal "unknown typecode" assertion)
_dbus_type_get_alignment(typecode) ==
  IF typecode \in { DBUS_TYPE_BYTE, DBUS_TYPE_VARIANT, DBUS_TYPE_SIGNATURE }
  THEN 1
  ELSE IF typecode \in { DBUS_TYPE_BOOLEAN, DBUS_TYPE_INT32, DBUS_TYPE_UINT32,
                         DBUS_TYPE_STRING, DBUS_TYPE_OBJECT_PATH, DBUS_TYPE_ARRAY }
  THEN 4
  ELSE 8

\* the byte of a nul-terminated type string at index pos
TypeByte(type_s, pos) ==
  IF pos <= Len(type_s) THEN type_s[pos] ELSE DBUS_TYPE_INVALID

\* _dbus_first_type_in_signature
_dbus_first_type_in_signature(type_s, pos) ==
  IF TypeByte(type_s, pos) = DBUS_STRUCT_BEGIN_CHAR
  THEN DBUS_TYPE_STRUCT
  ELSE TypeByte(type_s, pos)

\* _dbus_type_reader_init_types_only
_dbus_type_reader_init_types_only(type_s, pos) ==
  [type_s |-> type_s, type_pos |-> pos, klass |-> "body"]

\* _dbus_type_reader_get_current_type: none at the end of the string, and
\* for a struct's reader at the closing parenthesis
_dbus_type_reader_get_current_type(reader) ==
  IF reader.klass = "struct"
     /\ TypeByte(reader.type_s, reader.type_pos) = DBUS_STRUCT_END_CHAR
  THEN DBUS_TYPE_INVALID
  ELSE _dbus_first_type_in_signature(reader.type_s, reader.type_pos)

\* _dbus_type_reader_get_element_type: the type after the array marker
_dbus_type_reader_get_element_type(reader) ==
  _dbus_first_type_in_signature(reader.type_s, reader.type_pos + 1)

\* _dbus_type_reader_recurse: a reader on the first contained type
_dbus_type_reader_recurse(reader) ==
  [type_s |-> reader.type_s, type_pos |-> reader.type_pos + 1,
   klass |-> IF TypeByte(reader.type_s, reader.type_pos) = DBUS_TYPE_ARRAY
             THEN "array" ELSE "struct"]

RECURSIVE SkipStruct(_, _, _)
\* the index after the parenthesis that closes depth open ones
SkipStruct(type_s, pos, depth) ==
  IF depth = 0 \/ pos > Len(type_s) THEN pos
  ELSE IF type_s[pos] = DBUS_STRUCT_BEGIN_CHAR
  THEN SkipStruct(type_s, pos + 1, depth + 1)
  ELSE IF type_s[pos] = DBUS_STRUCT_END_CHAR
  THEN SkipStruct(type_s, pos + 1, depth - 1)
  ELSE SkipStruct(type_s, pos + 1, depth)

RECURSIVE SkipOneCompleteType(_, _)
\* the index after the complete type that starts at pos
SkipOneCompleteType(type_s, pos) ==
  IF TypeByte(type_s, pos) = DBUS_TYPE_ARRAY
  THEN SkipOneCompleteType(type_s, pos + 1)
  ELSE IF TypeByte(type_s, pos) = DBUS_STRUCT_BEGIN_CHAR
  THEN SkipStruct(type_s, pos + 1, 1)
  ELSE pos + 1

\* _dbus_type_reader_next: the reader moved to the next type of its level
\* (unchanged when it has no current type)
ReaderAfterNext(reader) ==
  IF _dbus_type_reader_get_current_type(reader) = DBUS_TYPE_INVALID
  THEN reader
  ELSE [reader EXCEPT !.type_pos = SkipOneCompleteType(reader.type_s, reader.type_pos)]

\* the value _dbus_type_reader_next returns: is there a current type now
_dbus_type_reader_next(reader) ==
  _dbus_type_reader_get_current_type(ReaderAfterNext(reader)) # DBUS_TYPE_INVALID

\* _dbus_string_validate_utf8 on ASCII bytes: every byte is 1..127 (a nul
\* or a byte of a multi-byte sequence is refused; the model's bodies hold
\* ASCII bytes only)
_dbus_string_validate_utf8(str) ==
  \A i \in 1..Len(str) : str[i] >= 1 /\ str[i] <= 127

(***************************************************************************)
(* Name validators                                                         *)
(***************************************************************************)
DBUS_MAXIMUM_NAME_LENGTH == 255

\* a variant of VALID_INITIAL_NAME_CHARACTER that lets digits through
VALID_INITIAL_NAME_CHARACTER_OrDigit(c) ==
  (c >= 48 /\ c <= 57) \/ (c >= 65 /\ c <= 90) \/ (c >= 97 /\ c <= 122) \/ c = 95

\* the macro VALID_INITIAL_NAME_CHARACTER
VALID_INITIAL_NAME_CHARACTER(c) ==
  (c >= 65 /\ c <= 90) \/ (c >= 97 /\ c <= 122) \/ c = 95

\* the macro VALID_NAME_CHARACTER
VALID_NAME_CHARACTER(c) ==
  (c >= 48 /\ c <= 57) \/ (c >= 65 /\ c <= 90) \/ (c >= 97 /\ c <= 122) \/ c = 95

\* a variant of PathEndsWithSlash that never reports
PathEndsWithSlash_Never(len, end, last_slash) == FALSE

\* (end - last_slash) < 2 && len > 1, the test after the loop of
\* _dbus_validate_path
PathEndsWithSlash(len, end, last_slash) ==
  (end - last_slash) < 2 /\ len > 1

RECURSIVE PathScan(_, _, _)
\* the while (s != end) loop of _dbus_validate_path and the test after it;
\* s and last_slash are indexes into str
PathScan(str, s, last_slash) ==
  IF s > Len(str)
  THEN ~PathEndsWithSlash(Len(str), Len(str) + 1, last_slash)
  ELSE IF str[s] = 47
  THEN IF (s - last_slash) < 2 THEN FALSE ELSE PathScan(str, s + 1, s)
  ELSE IF ~VALID_NAME_CHARACTER(str[s]) THEN FALSE
  ELSE PathScan(str, s + 1, last_slash)

\* _dbus_validate_path on the whole of str
_dbus_validate_path(str) ==
  IF Len(str) = 0 THEN FALSE
  ELSE IF str[1] # 47 THEN FALSE
  ELSE PathScan(str, 2, 1)

RECURSIVE UniqueNameScan(_, _)
\* the while (s != end) loop of _dbus_validate_unique_name
UniqueNameScan(str, s) ==
  IF s > Len(str) THEN TRUE
  ELSE IF str[s] = 46
  THEN IF s + 1 > Len(str) THEN FALSE
       ELSE IF ~VALID_NAME_CHARACTER(str[s + 1]) THEN FALSE
       ELSE UniqueNameScan(str, s + 2)
  ELSE IF ~VALID_NAME_CHARACTER(str[s]) THEN FALSE
  ELSE UniqueNameScan(str, s + 1)

\* _dbus_validate_unique_name on the whole of str (str[1] is the colon)
_dbus_validate_unique_name(str) ==
  IF Len(str) > DBUS_MAXIMUM_NAME_LENGTH THEN FALSE
  ELSE UniqueNameScan(str, 2)

RECURSIVE InterfaceScan(_, _, _)
\* the while (s != end) loop of _dbus_validate_interface and the
\* last_dot == NULL test after it, one turn of the loop per arm (one flat
\* CASE, so that a name of the maximum length can be scanned)
InterfaceScan(str, s, seen_dot) ==
  CASE s > Len(str) -> seen_dot
       \* *s == '.' and (s + 1) == end
    [] s <= Len(str) /\ str[s] = 46 /\ s + 1 > Len(str) -> FALSE
       \* *s == '.' and !VALID_INITIAL_NAME_CHARACTER (*(s + 1))
    [] s < Len(str) /\ str[s] = 46 /\ ~VALID_INITIAL_NAME_CHARACTER(str[s + 1])
         -> FALSE
       \* *s == '.': last_dot = s, and s skips two
    [] s < Len(str) /\ str[s] = 46 /\ VALID_INITIAL_NAME_CHARACTER(str[s + 1])
         -> InterfaceScan(str, s + 2, TRUE)
       \* !VALID_NAME_CHARACTER (*s)
    [] s <= Len(str) /\ str[s] # 46 /\ ~VALID_NAME_CHARACTER(str[s]) -> FALSE
    [] OTHER -> InterfaceScan(str, s + 1, seen_dot)

\* _dbus_validate_interface on the whole of str
_dbus_validate_interface(str) ==
  IF Len(str) > DBUS_MAXIMUM_NAME_LENGTH THEN FALSE
  ELSE IF Len(str) = 0 THEN FALSE
  ELSE IF str[1] = 46 THEN FALSE
  ELSE IF ~VALID_INITIAL_NAME_CHARACTER(str[1]) THEN FALSE
  ELSE InterfaceScan(str, 2, FALSE)

\* _dbus_validate_error_name on the whole of str
_dbus_validate_error_name(str) ==
  _dbus_validate_interface(str)

\* _dbus_validate_bus_name on the whole of str
_dbus_validate_bus_name(str) ==
  IF Len(str) = 0 THEN FALSE
  ELSE IF str[1] = 58 THEN _dbus_validate_unique_name(str)
  ELSE _dbus_validate_interface(str)

(***************************************************************************)
(* validate_body_helper                                                    *)
(*                                                                         *)
(* ctx holds what stays the same during one walk: bytes, start, byte_order *)
(* and beyond (the value a read outside the body yields).  A call returns  *)
(* [validity, p, obs]: the DBusValidity, *new_p, and the record obs of     *)
(* what the walk did so far:                                               *)
(*   oob_read        a byte outside [start, end) was read                  *)
(*   max_depth       deepest nesting of validate_body_helper calls         *)
(*   skipped_nonzero an alignment skip passed over a nonzero body byte     *)
(*   bad_lookup      the alignment of a code without one was looked up     *)
(*   len_exceeds     a claimed length exceeded the bytes left before end   *)
(* A fatal assertion and a loop that makes no progress are the validities  *)
(* "ASSERTION_FAILED" and "NO_PROGRESS".                                   *)
(***************************************************************************)
NoObs ==
  [oob_read |-> FALSE, max_depth |-> 0, skipped_nonzero |-> FALSE,
   bad_lookup |-> FALSE, len_exceeds |-> FALSE]

\* what two parts of a walk did, together
JoinObs(o1, o2) ==
  [oob_read |-> o1.oob_read \/ o2.oob_read,
   max_depth |-> IF o1.max_depth > o2.max_depth THEN o1.max_depth ELSE o2.max_depth,
   skipped_nonzero |-> o1.skipped_nonzero \/ o2.skipped_nonzero,
   bad_lookup |-> o1.bad_lookup \/ o2.bad_lookup,
   len_exceeds |-> o1.len_exceeds \/ o2.len_exceeds]

Ret(validity, p, o) == [validity |-> validity, p |-> p, obs |-> o]

\* the result r of a nested call, after the caller did o before it
After(o, r) == [r EXCEPT !.obs = JoinObs(o, r.obs)]

\* o after the reads of the addresses lo .. hi - 1
Touch(ctx, o, lo, hi) ==
  IF \E q \in lo..(hi - 1) : ~InBody(ctx, q)
  THEN [o EXCEPT !.oob_read = TRUE]
  ELSE o

\* o after p moved from lo to hi for alignment
Skip(ctx, o, lo, hi) ==
  IF \E q \in lo..(hi - 1) : InBody(ctx, q) /\ ByteAt(ctx, q) # 0
  THEN [o EXCEPT !.skipped_nonzero = TRUE]
  ELSE o

\* the address at which while (p != a) { if (*p != '\0') return ...; ++p; }
\* stops: the first nonzero byte in [p, a), or a
PaddingStop(ctx, p, a) ==
  IF \E q \in p..(a - 1) : ByteAt(ctx, q) # 0
  THEN CHOOSE q \in p..(a - 1) :
         ByteAt(ctx, q) # 0 /\ \A r \in p..(q - 1) : ByteAt(ctx, r) = 0
  ELSE a

\* o after that loop ran from p towards a
TouchPadding(ctx, o, p, a) ==
  LET stop == PaddingStop(ctx, p, a)
  IN Touch(ctx, o, p, IF stop < a THEN stop + 1 ELSE a)

\* claimed_len > (unsigned long) (end - p): a negative difference converts
\* to at least 2^32 - 4, above every length the model's bytes encode
GreaterThanUnsigned(claimed_len, diff) ==
  IF diff >= 0 THEN claimed_len > diff ELSE FALSE

\* a variant of PastEnd that never reports
PastEnd_Never(p, end) == FALSE

\* if (p > end) return DBUS_INVALID_NOT_ENOUGH_DATA, after each value
PastEnd(p, end) == p > end

\* a variant of ValidateFixed that accepts the value without moving p
ValidateFixed_NoAdvance(ctx, current_type, p) == Ret("DBUS_VALID", p, NoObs)

\* case DBUS_TYPE_BOOLEAN ... DBUS_TYPE_DOUBLE
ValidateFixed(ctx, current_type, p) ==
  LET end == EndOf(ctx)
      alignment == _dbus_type_get_alignment(current_type)
      a == _DBUS_ALIGN_ADDRESS(p, alignment)
      o1 == TouchPadding(ctx, NoObs, p, a)
      o2 == Skip(ctx, o1, p, a)
      o3 == Touch(ctx, o2, a, a + 4)
  IN IF a >= end THEN Ret("DBUS_INVALID_NOT_ENOUGH_DATA", p, NoObs)
     ELSE IF PaddingStop(ctx, p, a) # a
     THEN Ret("DBUS_INVALID_ALIGNMENT_PADDING_NOT_NUL", p, o1)
     ELSE IF current_type = DBUS_TYPE_BOOLEAN
     THEN IF _dbus_unpack_uint32(ctx, a) \notin {0, 1}
          THEN Ret("DBUS_INVALID_BOOLEAN_NOT_ZERO_OR_ONE", a, o3)
          ELSE Ret("DBUS_VALID", a + alignment, o3)
     ELSE Ret("DBUS_VALID", a + alignment, o2)

\* case DBUS_TYPE_SIGNATURE
ValidateSignatureValue(ctx, p) ==
  LET end == EndOf(ctx)
      claimed_len == ByteAt(ctx, p)
      o1 == Touch(ctx, NoObs, p, p + 1)
      p1 == p + 1
      str == BytesAt(ctx, p1, claimed_len)
      o2 == Touch(ctx, o1, p1, p1 + claimed_len)
      p2 == p1 + claimed_len
      o3 == Touch(ctx, o2, p2, p2 + 1)
  IN IF GreaterThanUnsigned(claimed_len + 1, end - p1)
     THEN Ret("DBUS_INVALID_SIGNATURE_LENGTH_OUT_OF_BOUNDS", p1, o1)
     ELSE IF ~_dbus_validate_signature(str)
     THEN Ret("DBUS_INVALID_BAD_SIGNATURE", p1, o2)
     ELSE IF ~(p2 < end)
     THEN Ret("ASSERTION_FAILED", p2, o2)
     ELSE IF ByteAt(ctx, p2) # DBUS_TYPE_INVALID
     THEN Ret("DBUS_INVALID_SIGNATURE_MISSING_NUL", p2, o3)
     ELSE Ret("DBUS_VALID", p2 + 1, o3)

\* case DBUS_TYPE_ARRAY, DBUS_TYPE_STRING, DBUS_TYPE_OBJECT_PATH, up to the
\* test of claimed_len against end; "DBUS_VALID" with p after the length
\* word (for an array: after the alignment to the element type)
ValidateLengthPrefix(ctx, reader, current_type, p) ==
  LET end == EndOf(ctx)
      a == _DBUS_ALIGN_ADDRESS(p, 4)
      o1 == TouchPadding(ctx, NoObs, p, a)
      o2 == Touch(ctx, Skip(ctx, o1, p, a), a, a + 4)
      claimed_len == _dbus_unpack_uint32(ctx, a)
      p1 == a + 4
      array_elem_type == _dbus_type_reader_get_element_type(reader)
      p2 == IF current_type = DBUS_TYPE_ARRAY
            THEN _DBUS_ALIGN_ADDRESS(p1, _dbus_type_get_alignment(array_elem_type))
            ELSE p1
      o3 == Skip(ctx, o2, p1, p2)
      o4 == IF claimed_len > (IF end > p2 THEN end - p2 ELSE 0)
            THEN [o3 EXCEPT !.len_exceeds = TRUE] ELSE o3
  IN IF a + 4 > end THEN Ret("DBUS_INVALID_NOT_ENOUGH_DATA", p, NoObs)
     ELSE IF PaddingStop(ctx, p, a) # a
     THEN Ret("DBUS_INVALID_ALIGNMENT_PADDING_NOT_NUL", p, o1)
     ELSE IF ~(p1 <= end) THEN Ret("ASSERTION_FAILED", p1, o2)
     ELSE IF current_type = DBUS_TYPE_ARRAY
             /\ array_elem_type \notin TypesWithAlignment
     THEN Ret("ASSERTION_FAILED", p1, [o2 EXCEPT !.bad_lookup = TRUE])
     ELSE IF GreaterThanUnsigned(claimed_len, end - p2)
     THEN Ret("DBUS_INVALID_STRING_LENGTH_OUT_OF_BOUNDS", p2, o4)
     ELSE Ret("DBUS_VALID", p2, o4)

\* the claimed_len the prefix at p holds
ClaimedLen(ctx, p) == _dbus_unpack_uint32(ctx, _DBUS_ALIGN_ADDRESS(p, 4))

\* DBUS_TYPE_STRING and DBUS_TYPE_OBJECT_PATH after the prefix: the
\* claimed_len bytes at p2 and the terminating nul
ValidateStringBytes(ctx, current_type, p2, claimed_len) ==
  LET end == EndOf(ctx)
      str == BytesAt(ctx, p2, claimed_len)
      o5 == Touch(ctx, NoObs, p2, p2 + claimed_len)
      p3 == p2 + claimed_len
      o6 == Touch(ctx, o5, p3, p3 + 1)
  IN IF current_type = DBUS_TYPE_OBJECT_PATH /\ ~_dbus_validate_path(str)
     THEN Ret("DBUS_INVALID_BAD_PATH", p2, o5)
     ELSE IF current_type = DBUS_TYPE_STRING /\ ~_dbus_string_validate_utf8(str)
     THEN Ret("DBUS_INVALID_BAD_UTF8_IN_STRING", p2, o5)
     ELSE IF p3 = end THEN Ret("DBUS_INVALID_NOT_ENOUGH_DATA", p3, o5)
     ELSE IF ByteAt(ctx, p3) # 0
     THEN Ret("DBUS_INVALID_STRING_MISSING_NUL", p3, o6)
     ELSE Ret("DBUS_VALID", p3 + 1, o6)

\* case DBUS_TYPE_VARIANT up to the recursive call: the inline signature,
\* its nul and the padding; "DBUS_VALID" with p at the value
ValidateVariantSignature(ctx, p) ==
  LET end == EndOf(ctx)
      claimed_len == ByteAt(ctx, p)
      o1 == Touch(ctx, NoObs, p, p + 1)
      p1 == p + 1
      sig == BytesAt(ctx, p1, claimed_len)
      o2 == Touch(ctx, o1, p1, p1 + claimed_len)
      p2 == p1 + claimed_len
      o3 == Touch(ctx, o2, p2, p2 + 1)
      p3 == p2 + 1
      contained_type == _dbus_first_type_in_signature(sig, 1)
      a == _DBUS_ALIGN_ADDRESS(p3, _dbus_type_get_alignment(contained_type))
      o4 == TouchPadding(ctx, o3, p3, a)
      o5 == Skip(ctx, o4, p3, a)
      sub == _dbus_type_reader_init_types_only(sig, 1)
  IN IF GreaterThanUnsigned(claimed_len + 1, end - p1)
     THEN Ret("DBUS_INVALID_VARIANT_SIGNATURE_LENGTH_OUT_OF_BOUNDS", p1, o1)
     ELSE IF ~_dbus_validate_signature(sig)
     THEN Ret("DBUS_INVALID_VARIANT_SIGNATURE_BAD", p1, o2)
     ELSE IF ByteAt(ctx, p2) # DBUS_TYPE_INVALID
     THEN Ret("DBUS_INVALID_VARIANT_SIGNATURE_MISSING_NUL", p2, o3)
     ELSE IF contained_type \notin TypesWithAlignment
     THEN Ret("ASSERTION_FAILED", p3, [o3 EXCEPT !.bad_lookup = TRUE])
     ELSE IF a > end THEN Ret("DBUS_INVALID_NOT_ENOUGH_DATA", p3, o3)
     ELSE IF PaddingStop(ctx, p3, a) # a
     THEN Ret("DBUS_INVALID_ALIGNMENT_PADDING_NOT_NUL", p3, o4)
     ELSE IF _dbus_type_reader_get_current_type(sub) = DBUS_TYPE_INVALID
     THEN Ret("DBUS_INVALID_VARIANT_SIGNATURE_EMPTY", a, o5)
     ELSE Ret("DBUS_VALID", a, o5)

\* the inline signature of the variant at p
VariantSignature(ctx, p) == BytesAt(ctx, p + 1, ByteAt(ctx, p))

\* case DBUS_TYPE_STRUCT up to the recursive call: the padding to 8
ValidateStructPadding(ctx, p) ==
  LET end == EndOf(ctx)
      a == _DBUS_ALIGN_ADDRESS(p, 8)
      o1 == TouchPadding(ctx, NoObs, p, a)
      o2 == Skip(ctx, o1, p, a)
  IN IF a > end THEN Ret("DBUS_INVALID_NOT_ENOUGH_DATA", p, NoObs)
     ELSE IF PaddingStop(ctx, p, a) # a
     THEN Ret("DBUS_INVALID_ALIGNMENT_PADDING_NOT_NUL", p, o1)
     ELSE Ret("DBUS_VALID", a, o2)

RECURSIVE validate_body_helper(_, _, _, _, _)
RECURSIVE ArrayElements(_, _, _, _, _)

\* the array loop after the call on one element returned r
ArrayElementsNext(ctx, sub, p, array_end, depth, r) ==
  IF r.validity # "DBUS_VALID" THEN r
  ELSE IF r.p = p THEN Ret("NO_PROGRESS", p, r.obs)
  ELSE After(r.obs, ArrayElements(ctx, sub, r.p, array_end, depth))

\* while (p < array_end) validate_body_helper (&sub, byte_order, FALSE, p, end, &p)
ArrayElements(ctx, sub, p, array_end, depth) ==
  IF ~(p < array_end) THEN Ret("DBUS_VALID", p, NoObs)
  ELSE ArrayElementsNext(ctx, sub, p, array_end, depth,
                         validate_body_helper(ctx, sub, FALSE, p, depth + 1))

\* a variant of ArrayLengthCheck without the test
ArrayLengthCheck_Skipped(array_end, r) == r

\* if (p != array_end) return DBUS_INVALID_ARRAY_LENGTH_INCORRECT, after
\* the array loop returned r
ArrayLengthCheck(array_end, r) ==
  IF r.validity # "DBUS_VALID" THEN r
  ELSE IF r.p # array_end
  THEN Ret("DBUS_INVALID_ARRAY_LENGTH_INCORRECT", r.p, r.obs)
  ELSE r

\* what follows the length prefix, whose part returned h
LengthPrefixedContent(ctx, reader, current_type, depth, claimed_len, h) ==
  IF h.validity # "DBUS_VALID" THEN h
  ELSE IF current_type # DBUS_TYPE_ARRAY
  THEN After(h.obs, ValidateStringBytes(ctx, current_type, h.p, claimed_len))
  ELSE IF ~(claimed_len > 0) THEN h
  ELSE ArrayLengthCheck(h.p + claimed_len,
         After(h.obs, ArrayElements(ctx, _dbus_type_reader_recurse(reader),
                                    h.p, h.p + claimed_len, depth)))

\* case DBUS_TYPE_ARRAY, DBUS_TYPE_STRING, DBUS_TYPE_OBJECT_PATH
ValidateLengthPrefixed(ctx, reader, current_type, p, depth) ==
  LengthPrefixedContent(ctx, reader, current_type, depth, ClaimedLen(ctx, p),
                        ValidateLengthPrefix(ctx, reader, current_type, p))

\* if (_dbus_type_reader_next (&sub)) return ..., after the call on the
\* variant's value returned r
VariantSingleValue(sub, r) ==
  IF r.validity # "DBUS_VALID" THEN r
  ELSE IF _dbus_type_reader_next(sub)
  THEN Ret("DBUS_INVALID_VARIANT_SIGNATURE_SPECIFIES_MULTIPLE_VALUES", r.p, r.obs)
  ELSE r

\* the variant's value, after the part on its signature returned h
VariantValue(ctx, sub, depth, h) ==
  IF h.validity # "DBUS_VALID" THEN h
  ELSE VariantSingleValue(sub,
         After(h.obs, validate_body_helper(ctx, sub, FALSE, h.p, depth + 1)))

\* case DBUS_TYPE_VARIANT
ValidateVariant(ctx, p, depth) ==
  VariantValue(ctx, _dbus_type_reader_init_types_only(VariantSignature(ctx, p), 1),
               depth, ValidateVariantSignature(ctx, p))

\* the struct's fields, after the part on its padding returned h
StructFields(ctx, reader, depth, h) ==
  IF h.validity # "DBUS_VALID" THEN h
  ELSE After(h.obs, validate_body_helper(ctx, _dbus_type_reader_recurse(reader),
                                         TRUE, h.p, depth + 1))

\* case DBUS_TYPE_STRUCT
ValidateStruct(ctx, reader, p, depth) ==
  StructFields(ctx, reader, depth, ValidateStructPadding(ctx, p))

\* the switch (current_type) on one value
ValidateValue(ctx, reader, current_type, p, depth) ==
  CASE current_type = DBUS_TYPE_BYTE -> Ret("DBUS_VALID", p + 1, NoObs)
    [] current_type \in { DBUS_TYPE_BOOLEAN, DBUS_TYPE_INT32, DBUS_TYPE_UINT32,
                          DBUS_TYPE_INT64, DBUS_TYPE_UINT64, DBUS_TYPE_DOUBLE }
       -> ValidateFixed(ctx, current_type, p)
    [] current_type \in { DBUS_TYPE_ARRAY, DBUS_TYPE_STRING, DBUS_TYPE_OBJECT_PATH }
       -> ValidateLengthPrefixed(ctx, reader, current_type, p, depth)
    [] current_type = DBUS_TYPE_SIGNATURE -> ValidateSignatureValue(ctx, p)
    [] current_type = DBUS_TYPE_VARIANT -> ValidateVariant(ctx, p, depth)
    [] current_type = DBUS_TYPE_STRUCT -> ValidateStruct(ctx, reader, p, depth)
    [] OTHER -> Ret("ASSERTION_FAILED", p, NoObs)

\* the end of one turn of the while loop, after the switch returned r: the
\* test p > end, *new_p, and the next turn when walk_reader_to_end
AfterValue(ctx, reader, walk_reader_to_end, depth, r) ==
  IF r.validity # "DBUS_VALID" THEN r
  ELSE IF PastEnd(r.p, EndOf(ctx))
  THEN Ret("DBUS_INVALID_NOT_ENOUGH_DATA", r.p, r.obs)
  ELSE IF walk_reader_to_end
  THEN After(r.obs, validate_body_helper(ctx, ReaderAfterNext(reader), TRUE,
                                         r.p, depth))
  ELSE r

\* the call at nesting depth `depth` (1 for the call of the entry point)
validate_body_helper(ctx, reader, walk_reader_to_end, p, depth) ==
  IF _dbus_type_reader_get_current_type(reader) = DBUS_TYPE_INVALID
  THEN Ret("DBUS_VALID", p, [NoObs EXCEPT !.max_depth = depth])
  ELSE IF p = EndOf(ctx)
  THEN Ret("DBUS_INVALID_NOT_ENOUGH_DATA", p, [NoObs EXCEPT !.max_depth = depth])
  ELSE AfterValue(ctx, reader, walk_reader_to_end, depth,
         After([NoObs EXCEPT !.max_depth = depth],
               ValidateValue(ctx, reader, _dbus_type_reader_get_current_type(reader),
                             p, depth)))

(***************************************************************************)
(* _dbus_validate_body_with_reason                                         *)
(***************************************************************************)
\* the reader on the signature, and the walk of all top-level values:
\* validate_body_helper (&reader, byte_order, TRUE, p, end, &p)
WalkBody(sig, order, bytes, pos, outside) ==
  validate_body_helper([bytes |-> bytes, start |-> pos, byte_order |-> order,
                        beyond |-> outside],
                       _dbus_type_reader_init_types_only(sig, 1), TRUE, pos, 1)

\* what follows the walk r: [validity, stored, bytes_remaining], where
\* stored says whether *bytes_remaining was written
BodyResult(r, end, remaining_wanted) ==
  LET Out(v, st, rem) == [validity |-> v, stored |-> st, bytes_remaining |-> rem]
  IN IF r.validity # "DBUS_VALID" THEN Out(r.validity, FALSE, 0)
     ELSE IF remaining_wanted THEN Out("DBUS_VALID", TRUE, end - r.p)
     ELSE IF r.p < end THEN Out("DBUS_INVALID_TOO_MUCH_DATA", FALSE, 0)
     ELSE IF r.p # end THEN Out("ASSERTION_FAILED", FALSE, 0)
     ELSE Out("DBUS_VALID", FALSE, 0)

(***************************************************************************)
(* Inputs                                                                  *)
(***************************************************************************)
\* every byte string over alphabet of at most n bytes
Strings(alphabet, n) == UNION { [1..k -> alphabet] : k \in 0..n }

\* the codes the type strings of SpecSig are made of: a basic type, the
\* array marker, the parentheses and a code that is no signature code
SigAlphabet ==
  { DBUS_TYPE_BYTE, DBUS_TYPE_ARRAY, DBUS_STRUCT_BEGIN_CHAR,
    DBUS_STRUCT_END_CHAR, DBUS_TYPE_STRUCT }

\* longest body made of the bytes 0 and 1
MaxBodyLen == 8
\* longest body that also holds the byte 2 and a type code
MaxTypedBodyLen == 5
\* the values of a body byte: 0, 1, 2 and the type code of a byte
BodyByteValues == { 0, 1, 2, DBUS_TYPE_BYTE }
\* the values a byte outside the body may hold
OutsideValues == { 0, 1 }

\* the bodies of SpecBody
Bodies ==
  Strings({0, 1}, MaxBodyLen) \cup Strings(BodyByteValues, MaxTypedBodyLen)

\* the signatures the bodies are validated against; each is accepted by
\* _dbus_validate_signature_with_reason
BodySignatures ==
  { << >>,
    << DBUS_TYPE_BYTE >>,
    << DBUS_TYPE_BOOLEAN >>,
    << DBUS_TYPE_INT64 >>,
    << DBUS_TYPE_STRING >>,
    << DBUS_TYPE_OBJECT_PATH >>,
    << DBUS_TYPE_SIGNATURE >>,
    << DBUS_TYPE_VARIANT >>,
    << DBUS_TYPE_ARRAY, DBUS_TYPE_BYTE >>,
    << DBUS_TYPE_ARRAY, DBUS_TYPE_INT64 >>,
    << DBUS_TYPE_ARRAY, DBUS_TYPE_BOOLEAN >>,
    << DBUS_TYPE_ARRAY, DBUS_STRUCT_BEGIN_CHAR, DBUS_TYPE_BYTE,
       DBUS_STRUCT_END_CHAR >>,
    << DBUS_TYPE_BYTE, DBUS_TYPE_BOOLEAN >>,
    << DBUS_STRUCT_BEGIN_CHAR, DBUS_TYPE_BYTE, DBUS_STRUCT_END_CHAR >>,
    << DBUS_STRUCT_BEGIN_CHAR, DBUS_TYPE_ARRAY, DBUS_STRUCT_END_CHAR >> }

\* most variants wrapped around a byte
MaxVariantNesting == 9

RECURSIVE NestedVariantBody(_)
\* the body of a byte wrapped in n + 1 variants
NestedVariantBody(n) ==
  IF n = 0 THEN << 1, DBUS_TYPE_BYTE, 0, 1 >>
  ELSE << 1, DBUS_TYPE_VARIANT, 0 >> \o NestedVariantBody(n - 1)

\* largest claimed length of the array bodies
MaxArrayLen == 8

\* the signatures of one array of fixed-width elements
ArraySignatures ==
  { << DBUS_TYPE_ARRAY, DBUS_TYPE_BYTE >>,
    << DBUS_TYPE_ARRAY, DBUS_TYPE_INT32 >>,
    << DBUS_TYPE_ARRAY, DBUS_TYPE_INT64 >>,
    << DBUS_TYPE_ARRAY, DBUS_TYPE_BOOLEAN >> }

\* the bodies of an array: the length word n (in either byte order) and k
\* bytes 0 after it
ArrayBodies ==
  { w \o [i \in 1..k |-> 0] :
      w \in { << n, 0, 0, 0 >> : n \in 0..MaxArrayLen }
           \cup { << 0, 0, 0, n >> : n \in 0..MaxArrayLen },
      k \in 0..(MaxArrayLen + 4) }

\* the signatures of one array whose elements have a length of their own:
\* arrays of bytes, strings
VariableElementArraySignatures ==
  { << DBUS_TYPE_ARRAY, DBUS_TYPE_ARRAY, DBUS_TYPE_BYTE >>,
    << DBUS_TYPE_ARRAY, DBUS_TYPE_STRING >> }

\* the (signature, body) pairs of SpecBody
BodyInputs ==
  (BodySignatures \X Bodies)
  \cup { << << DBUS_TYPE_VARIANT >>, NestedVariantBody(n) >> :
         n \in 0..MaxVariantNesting }
  \cup (ArraySignatures \X ArrayBodies)
  \cup (VariableElementArraySignatures \X ArrayBodies)

\* longest name
MaxNameLen == 4
\* the bytes the names are made of: ':', '.', '1', '5', 'a' and '-'
NameAlphabet == { 58, 46, 49, 53, 97, 45 }

\* the bytes the object paths are made of: '/', 'a', '1', '_' and '-'
PathAlphabet == { 47, 97, 49, 95, 45 }
\* the bytes the interface names are made of: '.', 'a', 'Z', '1', '_', '-'
InterfaceAlphabet == { 46, 97, 90, 49, 95, 45 }

\* the name of n bytes "a.a.a. ... a" (with "aa" last when n is even)
LongName(n) == [i \in 1..n |-> IF i % 2 = 0 /\ i < n THEN 46 ELSE 97]

\* the interface names tried: the short ones and two at the length limit
InterfaceNames ==
  Strings(InterfaceAlphabet, MaxNameLen)
    \cup { LongName(DBUS_MAXIMUM_NAME_LENGTH),
           LongName(DBUS_MAXIMUM_NAME_LENGTH + 1) }

(***************************************************************************)
(* Specifications: one call of an entry point on inputs drawn by Init.     *)
(***************************************************************************)
NoSigCall == type_str = << >> /\ sig_validity = "none"
NoNameCall == name_str = << >> /\ name_ok = "none"
NoBodyResult ==
  /\ want_remaining = FALSE /\ beyond = 0 /\ walk = "none"
  /\ body_validity = "none" /\ bytes_remaining = "none" /\ obs = NoObs
NoBodyCall ==
  /\ expected_signature = << >> /\ byte_order = DBUS_LITTLE_ENDIAN
  /\ value_str = << >> /\ value_pos = 0 /\ NoBodyResult

InitSig ==
  /\ pc = "call"
  /\ type_str \in Strings(SigAlphabet, MaxSigLen)
  /\ sig_validity = "none"
  /\ NoNameCall /\ NoBodyCall

\* _dbus_validate_signature_with_reason (type_str, 0, Len(type_str))
ValidateSignatureCall ==
  /\ pc = "call"
  /\ pc' = "done"
  /\ sig_validity' = _dbus_validate_signature_with_reason(type_str)
  /\ UNCHANGED << type_str, name_str, name_ok, expected_signature, byte_order,
                  value_str, value_pos, want_remaining, beyond, walk,
                  body_validity, bytes_remaining, obs >>

NextSig == ValidateSignatureCall

SpecSig == InitSig /\ [][NextSig]_vars

InitName ==
  /\ pc = "call"
  /\ name_str \in Strings(NameAlphabet, MaxNameLen)
  /\ name_ok = "none"
  /\ NoSigCall /\ NoBodyCall

\* _dbus_validate_bus_name (name_str, 0, Len(name_str))
ValidateBusNameCall ==
  /\ pc = "call"
  /\ pc' = "done"
  /\ name_ok' = _dbus_validate_bus_name(name_str)
  /\ UNCHANGED << type_str, sig_validity, name_str, expected_signature,
                  byte_order, value_str, value_pos, want_remaining, beyond,
                  walk, body_validity, bytes_remaining, obs >>

NextName == ValidateBusNameCall

SpecName == InitName /\ [][NextName]_vars

InitPath ==
  /\ pc = "call"
  /\ name_str \in Strings(PathAlphabet, MaxNameLen)
  /\ name_ok = "none"
  /\ NoSigCall /\ NoBodyCall

\* _dbus_validate_path (name_str, 0, Len(name_str))
ValidatePathCall ==
  /\ pc = "call"
  /\ pc' = "path_done"
  /\ name_ok' = _dbus_validate_path(name_str)
  /\ UNCHANGED << type_str, sig_validity, name_str, expected_signature,
                  byte_order, value_str, value_pos, want_remaining, beyond,
                  walk, body_validity, bytes_remaining, obs >>

NextPath == ValidatePathCall

SpecPath == InitPath /\ [][NextPath]_vars

InitInterface ==
  /\ pc = "call"
  /\ name_str \in InterfaceNames
  /\ name_ok = "none"
  /\ NoSigCall /\ NoBodyCall

\* _dbus_validate_interface (name_str, 0, Len(name_str))
ValidateInterfaceCall ==
  /\ pc = "call"
  /\ pc' = "interface_done"
  /\ name_ok' = _dbus_validate_interface(name_str)
  /\ UNCHANGED << type_str, sig_validity, name_str, expected_signature,
                  byte_order, value_str, value_pos, want_remaining, beyond,
                  walk, body_validity, bytes_remaining, obs >>

\* _dbus_validate_error_name (name_str, 0, Len(name_str)), called on the
\* name that _dbus_validate_interface was called on
ValidateErrorNameCall ==
  /\ pc = "interface_done"
  /\ pc' = "error_name_done"
  /\ name_ok' = _dbus_validate_error_name(name_str)
  /\ UNCHANGED << type_str, sig_validity, name_str, expected_signature,
                  byte_order, value_str, value_pos, want_remaining, beyond,
                  walk, body_validity, bytes_remaining, obs >>

NextInterface == ValidateInterfaceCall \/ ValidateErrorNameCall

SpecInterface == InitInterface /\ [][NextInterface]_vars

InitBody ==
  /\ pc = "call"
  /\ \E in \in BodyInputs : expected_signature = in[1] /\ value_str = in[2]
  /\ byte_order \in { DBUS_LITTLE_ENDIAN, DBUS_BIG_ENDIAN }
  /\ value_pos = 0
  /\ NoBodyResult
  /\ NoSigCall /\ NoNameCall

\* _dbus_validate_body_with_reason (expected_signature, 0, byte_order,
\*   want_remaining ? &bytes_remaining : NULL, value_str, value_pos, len).
\* The caller passes bytes_remaining or NULL; the bytes outside the body
\* hold any of OutsideValues, which matters only to a walk that reads them.
ValidateBodyCall ==
  /\ pc = "call"
  /\ pc' = "done"
  /\ LET r0 == WalkBody(expected_signature, byte_order, value_str, value_pos, 0)
     IN \E outside \in (IF r0.obs.oob_read THEN OutsideValues ELSE {0}) :
        LET r == IF outside = 0 THEN r0
                 ELSE WalkBody(expected_signature, byte_order, value_str,
                               value_pos, outside)
        IN \E wanted \in BOOLEAN :
           LET res == BodyResult(r, value_pos + Len(value_str), wanted)
           IN /\ beyond' = outside
              /\ want_remaining' = wanted
              /\ walk' = [validity |-> r.validity, p |-> r.p]
              /\ obs' = r.obs
              /\ body_validity' = res.validity
              /\ bytes_remaining' =
                   IF res.stored THEN res.bytes_remaining ELSE "none"
  /\ UNCHANGED << type_str, sig_validity, name_str, name_ok, expected_signature,
                  byte_order, value_str, value_pos >>

NextBody == ValidateBodyCall

SpecBody == InitBody /\ [][NextBody]_vars

(***************************************************************************)
(* The signature grammar, and measures of a type string, as the claims     *)
(* about signatures state them.                                            *)
(***************************************************************************)
RECURSIVE CompleteTypeEnd(_, _, _, _)
RECURSIVE StructFieldsEnd(_, _, _, _)

\* the index after the complete type that starts at index i of s, or 0 if
\* none starts there; structs is the number of structs open around i and
\* arrays the number of array markers immediately before i
CompleteTypeEnd(s, i, structs, arrays) ==
  IF i > Len(s) THEN 0
  ELSE IF s[i] \in SignatureBasicCodes THEN i + 1
  ELSE IF s[i] = DBUS_TYPE_ARRAY
  THEN IF arrays + 1 > DBUS_MAXIMUM_TYPE_RECURSION_DEPTH THEN 0
       ELSE CompleteTypeEnd(s, i + 1, structs, arrays + 1)
  ELSE IF s[i] = DBUS_STRUCT_BEGIN_CHAR
  THEN IF structs + 1 > DBUS_MAXIMUM_TYPE_RECURSION_DEPTH THEN 0
       ELSE StructFieldsEnd(s, i + 1, structs + 1, 0)
  ELSE 0

\* the index after the ')' that closes the struct whose fields continue at
\* index i after `fields` complete ones, or 0
StructFieldsEnd(s, i, structs, fields) ==
  IF i > Len(s) THEN 0
  ELSE IF s[i] = DBUS_STRUCT_END_CHAR
  THEN IF fields = 0 THEN 0 ELSE i + 1
  ELSE LET e == CompleteTypeEnd(s, i, structs, 0)
       IN IF e = 0 THEN 0 ELSE StructFieldsEnd(s, e, structs, 1)

RECURSIVE CompleteTypesFrom(_, _)
\* TRUE iff s from index i on is a concatenation of complete types
CompleteTypesFrom(s, i) ==
  IF i > Len(s) THEN TRUE
  ELSE LET e == CompleteTypeEnd(s, i, 0, 0)
       IN IF e = 0 THEN FALSE ELSE CompleteTypesFrom(s, e)

\* TRUE iff s is zero or more complete types
IsSignature(s) == CompleteTypesFrom(s, 1)

\* TRUE iff s is exactly one complete type
IsSingleCompleteType(s) ==
  Len(s) > 0 /\ CompleteTypeEnd(s, 1, 0, 0) = Len(s) + 1

RECURSIVE SumSeq(_)
SumSeq(q) == IF q = << >> THEN 0 ELSE Head(q) + SumSeq(Tail(q))

Max2(x, y) == IF x > y THEN x ELSE y

RECURSIVE NestingScan(_, _, _, _, _)
\* the measures of s from index i on: opened holds, for each struct open
\* around i, the number of array markers right before its '('; pending is
\* the number of array markers right before i.  In the result, arrays is
\* the largest number of arrays around a type, structs the largest number
\* of open structs, run the longest run of array markers and containers
\* the largest number of arrays and structs around a type.
NestingScan(s, i, opened, pending, best) ==
  IF i > Len(s) THEN best
  ELSE LET around == SumSeq(opened) + pending
           seen == [best EXCEPT
                      !.arrays = Max2(@, around),
                      !.containers = Max2(@, around + Len(opened))]
       IN IF s[i] = DBUS_STRUCT_END_CHAR
          THEN NestingScan(s, i + 1,
                           IF opened = << >> THEN opened
                           ELSE SubSeq(opened, 1, Len(opened) - 1),
                           0, best)
          ELSE IF s[i] = DBUS_TYPE_ARRAY
          THEN NestingScan(s, i + 1, opened, pending + 1,
                           [seen EXCEPT !.run = Max2(@, pending + 1)])
          ELSE IF s[i] = DBUS_STRUCT_BEGIN_CHAR
          THEN NestingScan(s, i + 1, Append(opened, pending), 0,
                           [seen EXCEPT !.structs = Max2(@, Len(opened) + 1)])
          ELSE NestingScan(s, i + 1, opened, 0, seen)

Nesting(s) ==
  NestingScan(s, 1, << >>, 0,
              [arrays |-> 0, structs |-> 0, run |-> 0, containers |-> 0])

\* the deepest container nesting of a signature within the validator's
\* limits: DBUS_MAXIMUM_TYPE_RECURSION_DEPTH structs, each inside (and the
\* innermost holding) DBUS_MAXIMUM_TYPE_RECURSION_DEPTH consecutive arrays
MaxContainerNesting ==
  DBUS_MAXIMUM_TYPE_RECURSION_DEPTH * (DBUS_MAXIMUM_TYPE_RECURSION_DEPTH + 2)

\* the depth of validate_body_helper calls that the signature sig and the
\* validator's limits account for: the call of the entry point, one call
\* per container of sig around a value, and the call on a variant's value
\* with one call per container that the variant's own signature may nest
HelperDepthBound(sig) == 1 + Nesting(sig).containers + 1 + MaxContainerNesting

SigDone == pc = "done" /\ sig_validity # "none"
NameDone == pc = "done" /\ sig_validity = "none" /\ body_validity = "none"
BodyDone == pc = "done" /\ body_validity # "none"

(***************************************************************************)
(* Claims                                                                  *)
(***************************************************************************)

\* C1: a type string of at most the maximum signature length is accepted by
\* _dbus_validate_signature_with_reason if and only if it is a
\* concatenation of zero or more complete types (a basic or variant code,
\* 'a' followed by one complete type, or '(' one or more complete types
\* ')'), with struct nesting and consecutive array markers each within the
\* maximum.
C1_ValidIffCompleteTypes ==
  SigDone /\ Len(type_str) <= DBUS_MAXIMUM_SIGNATURE_LENGTH
    => (sig_validity = "DBUS_VALID" <=> IsSignature(type_str))

\* C2: the walk of a body reads no byte outside [start, start + len): a
\* value with too few bytes left gives not-enough-data and is not read.
C2_ReadsInsideBody ==
  BodyDone => ~obs.oob_read

\* C3: the nesting depth of validate_body_helper calls stays within a bound
\* that the signature validator's limits and the top-level signature give,
\* whatever the body bytes are.
C3_DepthBoundedBySignature ==
  BodyDone => obs.max_depth <= HelperDepthBound(expected_signature)

\* C4: when the walk of the top-level values succeeds, then with
\* bytes_remaining supplied the call returns DBUS_VALID and stores the
\* number of unconsumed bytes, which is in 0 .. len; with bytes_remaining
\* NULL it returns DBUS_INVALID_TOO_MUCH_DATA if a byte is unconsumed and
\* DBUS_VALID when exactly len bytes were consumed, and the assertion
\* p == end holds.
C4_ResultByMode ==
  BodyDone /\ walk.validity = "DBUS_VALID" =>
    LET end == value_pos + Len(value_str)
    IN IF want_remaining
       THEN /\ body_validity = "DBUS_VALID"
            /\ bytes_remaining = end - walk.p
            /\ 0 <= bytes_remaining /\ bytes_remaining <= Len(value_str)
       ELSE /\ bytes_remaining = "none"
            /\ body_validity \in {"DBUS_VALID", "DBUS_INVALID_TOO_MUCH_DATA"}
            /\ (body_validity = "DBUS_INVALID_TOO_MUCH_DATA" <=> walk.p < end)
            /\ (body_validity = "DBUS_VALID" <=> walk.p = end)

\* C4 witness: a successful walk that leaves bytes, reported in
\* bytes_remaining
C4_Witness ==
  /\ BodyDone /\ walk.validity = "DBUS_VALID" /\ want_remaining
  /\ walk.p > value_pos
  /\ body_validity = "DBUS_VALID" /\ bytes_remaining > 0

\* TRUE iff the bytes of s after its first one are one or more segments
\* separated by '.', each non-empty and made of letters, digits and '_'
UniqueNameSegments(s) ==
  /\ Len(s) >= 2
  /\ s[2] # 46 /\ s[Len(s)] # 46
  /\ \A i \in 2..Len(s) : s[i] = 46 \/ VALID_NAME_CHARACTER(s[i])
  /\ \A i \in 2..(Len(s) - 1) : ~(s[i] = 46 /\ s[i + 1] = 46)

\* C5: _dbus_validate_bus_name on a name that starts with ':' returns TRUE
\* only if the bytes after the colon are one or more non-empty segments of
\* letters, digits and '_' separated by '.', within the maximum name
\* length; ":1.5" is valid and ":" is invalid.
C5_UniqueNameGrammar ==
  NameDone =>
    /\ (Len(name_str) > 0 /\ name_str[1] = 58 /\ name_ok = TRUE
          => UniqueNameSegments(name_str)
             /\ Len(name_str) <= DBUS_MAXIMUM_NAME_LENGTH)
    /\ (name_str = << 58, 49, 46, 53 >> => name_ok = TRUE)
    /\ (name_str = << 58 >> => name_ok = FALSE)

\* C6: on an accepted signature the walk looks up the alignment of type
\* codes that have one only, meets no code outside the switch, and ends by
\* returning a validity code (no fatal assertion).
C6_OnlyTypeCodesReachWalker ==
  BodyDone /\ _dbus_validate_signature(expected_signature)
    => ~obs.bad_lookup /\ body_validity # "ASSERTION_FAILED"

\* C7 as claimed: in an accepted signature no type is inside more arrays
\* than the maximum recursion depth, and struct nesting is within it too.
C7_ArrayNestingBounded ==
  SigDone /\ sig_validity = "DBUS_VALID" =>
    /\ Nesting(type_str).arrays <= DBUS_MAXIMUM_TYPE_RECURSION_DEPTH
    /\ Nesting(type_str).structs <= DBUS_MAXIMUM_TYPE_RECURSION_DEPTH

\* C7 as amended: in an accepted signature every run of consecutive array
\* markers is at most the maximum recursion depth long and struct nesting
\* is at most the maximum recursion depth.
C7_ArrayRunsAndStructsBounded ==
  SigDone /\ sig_validity = "DBUS_VALID" =>
    /\ Nesting(type_str).run <= DBUS_MAXIMUM_TYPE_RECURSION_DEPTH
    /\ Nesting(type_str).structs <= DBUS_MAXIMUM_TYPE_RECURSION_DEPTH

\* C7 witness: an accepted signature of the grammar with a run of array
\* markers of the maximum length and a struct
C7_Witness ==
  /\ SigDone /\ sig_validity = "DBUS_VALID" /\ IsSignature(type_str)
  /\ Nesting(type_str).run = DBUS_MAXIMUM_TYPE_RECURSION_DEPTH
  /\ Nesting(type_str).structs >= 1

\* C8: in an accepted body every byte skipped to reach an alignment
\* boundary is zero.
C8_PaddingIsNul ==
  BodyDone /\ body_validity = "DBUS_VALID" => ~obs.skipped_nonzero

\* C9: an array, string or object path whose claimed length exceeds the
\* bytes between the position after its length prefix (for an array: after
\* the alignment to the element type) and end makes the call return
\* length-out-of-bounds.
C9_LengthOutOfBounds ==
  BodyDone /\ obs.len_exceeds
    => body_validity = "DBUS_INVALID_STRING_LENGTH_OUT_OF_BOUNDS"

\* the inline signature of a variant that starts the body
TopVariantSignature ==
  SubSeq(value_str, 2, 1 + value_str[1])

\* TRUE iff the body starts with a variant's signature length, signature
\* bytes and nul
TopVariantSignatureComplete ==
  /\ Len(value_str) >= 1
  /\ Len(value_str) >= value_str[1] + 2
  /\ value_str[value_str[1] + 2] = 0

\* C10: a variant is accepted only if its inline signature passes signature
\* validation and is exactly one complete type; an empty inline signature
\* gives variant-signature-empty and one with a second type is rejected.
\* Stated for the variant of the signature "v".
C10_VariantSignatureOneType ==
  BodyDone /\ expected_signature = << DBUS_TYPE_VARIANT >> =>
    /\ (body_validity = "DBUS_VALID" =>
          /\ TopVariantSignatureComplete
          /\ _dbus_validate_signature(TopVariantSignature)
          /\ IsSingleCompleteType(TopVariantSignature))
    /\ (TopVariantSignatureComplete /\ value_str[1] = 0
          => body_validity = "DBUS_INVALID_VARIANT_SIGNATURE_EMPTY")
    /\ ((/\ TopVariantSignatureComplete
         /\ _dbus_validate_signature(TopVariantSignature)
         /\ ~IsSingleCompleteType(TopVariantSignature))
          => body_validity # "DBUS_VALID")

\* the object paths of the claim: non-empty, '/' first, no "//", no '/'
\* at the end unless the path is "/", every other byte a letter, a digit
\* or '_'
IsObjectPath(s) ==
  /\ Len(s) > 0
  /\ s[1] = 47
  /\ \A i \in 1..(Len(s) - 1) : ~(s[i] = 47 /\ s[i + 1] = 47)
  /\ (s[Len(s)] = 47 => Len(s) = 1)
  /\ \A i \in 1..Len(s) :
       s[i] = 47 \/ (s[i] >= 48 /\ s[i] <= 57) \/ (s[i] >= 65 /\ s[i] <= 90)
                 \/ (s[i] >= 97 /\ s[i] <= 122) \/ s[i] = 95

PathDone == pc = "path_done"

\* C11: _dbus_validate_path returns TRUE if and only if the range is
\* non-empty, starts with '/', has no two consecutive '/', does not end
\* with '/' unless it is exactly "/", and every other byte is an ASCII
\* letter, digit or underscore; "/" is valid, "//" and "/a/" are invalid.
C11_PathGrammar ==
  PathDone =>
    /\ (name_ok = TRUE <=> IsObjectPath(name_str))
    /\ (name_str = << 47 >> => name_ok = TRUE)
    /\ (name_str = << 47, 47 >> => name_ok = FALSE)
    /\ (name_str = << 47, 97, 47 >> => name_ok = FALSE)

\* C11 witness: an accepted path of two components
C11_Witness ==
  /\ PathDone /\ name_ok = TRUE
  /\ Len(name_str) = 4 /\ name_str[3] = 47

\* the interface names of the claim: 1 to the maximum name length bytes,
\* at least one '.', no '.' first or last, a letter or '_' first and after
\* every '.', and letters, digits and '_' elsewhere
IsInterfaceName(s) ==
  LET Letter(c) == (c >= 65 /\ c <= 90) \/ (c >= 97 /\ c <= 122) \/ c = 95
      Digit(c) == c >= 48 /\ c <= 57
  IN /\ Len(s) >= 1 /\ Len(s) <= DBUS_MAXIMUM_NAME_LENGTH
     /\ \E i \in 1..Len(s) : s[i] = 46
     /\ s[1] # 46 /\ s[Len(s)] # 46
     /\ Letter(s[1])
     /\ \A i \in 1..(Len(s) - 1) : s[i] = 46 => Letter(s[i + 1])
     /\ \A i \in 1..Len(s) : s[i] = 46 \/ Letter(s[i]) \/ Digit(s[i])

\* C12: _dbus_validate_interface returns TRUE if and only if the length is
\* between 1 and the maximum name length, there is at least one '.', the
\* name neither starts nor ends with '.', the first byte and the byte after
\* every '.' are a letter or '_', and all remaining bytes are letters,
\* digits or '_'; _dbus_validate_error_name, called on the same name
\* after it, returns the same.
C12_InterfaceGrammar ==
  /\ (pc = "interface_done" => (name_ok = TRUE <=> IsInterfaceName(name_str)))
  /\ (pc = "error_name_done" => (name_ok = TRUE <=> IsInterfaceName(name_str)))

\* C12 witness: an accepted name of two segments, the second with a digit,
\* after both calls
C12_Witness ==
  /\ pc = "error_name_done" /\ name_ok = TRUE
  /\ Len(name_str) = 4 /\ name_str[2] = 46 /\ name_str[4] = 49

\* C12 witness at the length limit: the name of one byte more than the
\* maximum is refused
C12_WitnessTooLong ==
  /\ pc = "error_name_done" /\ name_ok = FALSE
  /\ Len(name_str) = DBUS_MAXIMUM_NAME_LENGTH + 1

(***************************************************************************)
(* An array of fixed-width elements as the only value of the body: what    *)
(* its bytes say, computed from the bytes.                                 *)
(***************************************************************************)
\* the signature is one array of bytes, int32 or int64
IsFixedArraySignature ==
  /\ Len(expected_signature) = 2
  /\ expected_signature[1] = DBUS_TYPE_ARRAY
  /\ expected_signature[2] \in { DBUS_TYPE_BYTE, DBUS_TYPE_INT32, DBUS_TYPE_INT64 }

\* the width of an element: 1, 4 or 8
TopElementWidth ==
  CASE expected_signature[2] = DBUS_TYPE_BYTE -> 1
    [] expected_signature[2] = DBUS_TYPE_INT32 -> 4
    [] OTHER -> 8

TopBodyEnd == value_pos + Len(value_str)

\* the claimed length: the 4 bytes at the start of the body, per byte_order
TopClaimedLen ==
  IF byte_order = DBUS_LITTLE_ENDIAN
  THEN value_str[1] + 256 * value_str[2] + 65536 * value_str[3]
         + 16777216 * value_str[4]
  ELSE value_str[4] + 256 * value_str[3] + 65536 * value_str[2]
         + 16777216 * value_str[1]

\* the first multiple of the element width at or after the length word
TopArrayStart ==
  value_pos + ((4 + TopElementWidth - 1) \div TopElementWidth) * TopElementWidth

\* where the last element ends: the array start plus the least number of
\* whole elements that covers the claimed length
TopLastElementEnd ==
  TopArrayStart
    + ((TopClaimedLen + TopElementWidth - 1) \div TopElementWidth) * TopElementWidth

\* the body holds the length word and the claimed bytes lie inside it
TopArrayInsideBody ==
  /\ IsFixedArraySignature
  /\ Len(value_str) >= 4
  /\ TopArrayStart <= TopBodyEnd
  /\ TopClaimedLen <= TopBodyEnd - TopArrayStart

C13_WitnessIncorrect ==
  /\ BodyDone /\ TopArrayInsideBody
  /\ TopClaimedLen > 0
  /\ TopLastElementEnd > TopArrayStart + TopClaimedLen
  /\ TopLastElementEnd <= TopBodyEnd
  /\ body_validity = "DBUS_INVALID_ARRAY_LENGTH_INCORRECT"

(***************************************************************************)
(* Progress of the calls that validate one value                           *)
(***************************************************************************)
\* the body of the call, as validate_body_helper sees it
TopCtx ==
  [bytes |-> value_str, start |-> value_pos, byte_order |-> byte_order,
   beyond |-> beyond]

\* the reader on the first type of the signature
TopReader == _dbus_type_reader_init_types_only(expected_signature, 1)

\* the signature starts with an array
IsTopArray ==
  _dbus_type_reader_get_current_type(TopReader) = DBUS_TYPE_ARRAY

\* the readers a call for one value is made with here: the one on the
\* first type of the signature and, for an array, the one on its elements
TopReaders ==
  { TopReader }
    \cup (IF IsTopArray THEN { _dbus_type_reader_recurse(TopReader) } ELSE {})

\* validate_body_helper (reader, byte_order, FALSE, p, end, &p)
OneValueCall(reader, p) == validate_body_helper(TopCtx, reader, FALSE, p, 1)

\* where the elements of the array that starts the body begin
TopElementsStart ==
  _DBUS_ALIGN_ADDRESS(value_pos + 4,
                      _dbus_type_get_alignment(
                        _dbus_type_reader_get_element_type(TopReader)))

\* the array that starts the body has its length word and its claimed
\* bytes inside the body
TopArrayLoopRuns ==
  /\ IsTopArray
  /\ _dbus_type_reader_get_element_type(TopReader) \in TypesWithAlignment
  /\ Len(value_str) >= 4
  /\ TopElementsStart <= TopBodyEnd
  /\ TopClaimedLen <= TopBodyEnd - TopElementsStart

RECURSIVE ArrayIterations(_, _, _)
\* one more call of the loop, which returned r from position p
ArrayIterationsNext(sub, p, array_end, r) ==
  IF r.validity # "DBUS_VALID" \/ r.p = p THEN 1
  ELSE 1 + ArrayIterations(sub, r.p, array_end)

\* the number of calls the loop while (p < array_end) makes from p, counted
\* up to the first call that fails or leaves p where it was
ArrayIterations(sub, p, array_end) ==
  IF ~(p < array_end) THEN 0
  ELSE ArrayIterationsNext(sub, p, array_end, OneValueCall(sub, p))

\* the calls of the element loop of the array that starts the body
TopArrayIterations ==
  ArrayIterations(_dbus_type_reader_recurse(TopReader), TopElementsStart,
                  TopElementsStart + TopClaimedLen)

\* C14: a call of validate_body_helper for one value (walk_reader_to_end
\* FALSE) that returns DBUS_VALID has moved p forward by at least one byte,
\* at every position of the body; no element call of an array loop leaves
\* p where it was; the element loop of the array that starts the body
\* makes at most claimed_len calls; and the call of
\* _dbus_validate_body_with_reason ends.
C14_OneValueCallAdvances ==
  BodyDone =>
    /\ walk.validity # "NO_PROGRESS" /\ body_validity # "NO_PROGRESS"
    /\ \A reader \in TopReaders : \A p \in value_pos..TopBodyEnd :
         (/\ _dbus_type_reader_get_current_type(reader) # DBUS_TYPE_INVALID
          /\ OneValueCall(reader, p).validity = "DBUS_VALID")
           => /\ OneValueCall(reader, p).p > p
              /\ OneValueCall(reader, p).p <= TopBodyEnd
    /\ (TopArrayLoopRuns => TopArrayIterations <= TopClaimedLen)

\* C14 witness: an accepted array of arrays whose element loop made two
\* calls or more, fewer than the claimed length
C14_Witness ==
  /\ BodyDone /\ body_validity = "DBUS_VALID"
  /\ TopArrayLoopRuns
  /\ expected_signature[2] = DBUS_TYPE_ARRAY
  /\ TopArrayIterations >= 2
  /\ TopArrayIterations < TopClaimedLen

====
